---- MODULE Spec2Model ----
(***************************************************************************)
(* FlashCart chargeback dashboard: the React front end (App, FiltersPanel, *)
(* ChargebackTable, BreakdownChart, api/client) and, behind it, the        *)
(* filtering-and-aggregation engine it talks to.                           *)
(*                                                                         *)
(* Conventions.                                                            *)
(*  - A JavaScript string is a TLA+ string.  A string the code BUILDS      *)
(*    (join, URLSearchParams.toString) is a sequence of atoms, each atom a *)
(*    TLA+ string that is never taken apart; "," "=" "&" are atoms of      *)
(*    their own.  Character-level operations (toLowerCase, includes) work  *)
(*    on Chars(s), the characters of s.                                    *)
(*  - A nullable value is a sequence of length <= 1: Null or Some(x).      *)
(*  - An ISO date string is compared through DateOrd (ISO dates compare    *)
(*    chronologically when compared as strings).                           *)
(***************************************************************************)
EXTENDS Integers, Sequences, FiniteSets, TLC

VARIABLES
    filters,          \* App: useState<Filters>(DEFAULT_FILTERS)
    metrics,          \* App: useState<MetricsResponse | null>(null)
    chargebacks,      \* App: useState<ChargebacksResponse | null>(null)
    metricsLoading,   \* App: useState(true)
    tableLoading,     \* App: useState(true)
    error,            \* App: useState<string | null>(null)
    sortBy,           \* ChargebackTable: useState("date")
    sortDir,          \* ChargebackTable: useState("desc")
    search,           \* ChargebackTable: useState("")
    local,            \* FiltersPanel: useState<Filters>({ ...filters })
    mounted,          \* whether App's mount effect has run
    calls,            \* the async handler invocations still awaiting a response
    clicks,           \* number of user actions taken so far
    walk,             \* history: the pages received by a Next-only walk
    hist,             \* history: the requests behind the records data held
    now,              \* the clock: UTC midnights passed since the page was loaded
    arg,              \* input of the pure function under check
    res               \* its result (Null until applied)

appVars == <<filters, metrics, chargebacks, metricsLoading, tableLoading, error>>
tableVars == <<sortBy, sortDir, search>>
dashVars == <<filters, metrics, chargebacks, metricsLoading, tableLoading, error,
              sortBy, sortDir, search, local, mounted, calls, clicks, walk, hist, now>>
fnVars == <<arg, res>>
vars == <<filters, metrics, chargebacks, metricsLoading, tableLoading, error,
          sortBy, sortDir, search, local, mounted, calls, clicks, walk, hist, now,
          arg, res>>

Null == <<>>
Some(x) == <<x>>

----------------------------------------------------------------------------
(* Bounds of the model *)

\* number of records in the store
NStore == 115
\* async handler invocations that may await a response at the same time
MaxInFlight == 2
\* user actions (Apply, Reset, header click, Prev, Next, typing in the search box)
MaxClicks == 2
\* user actions on the filter panel (checkbox, text input, Apply, Reset)
MaxEdits == 2
\* UTC midnights that pass while the page is open
MaxDays == 1
\* page numbers the engine is asked for directly in the engine specification
MaxPage == 4
\* groups in a breakdown list handed to the chart in the chart specification
MaxGroups == 3
\* largest group count in the chart specification
MaxCount == 2

----------------------------------------------------------------------------
(* Strings *)

Range(s) == {s[i] : i \in DOMAIN s}

UpperCase == <<"A","B","C","D","E","F","G","H","I","J","K","L","M",
               "N","O","P","Q","R","S","T","U","V","W","X","Y","Z">>
LowerCase == <<"a","b","c","d","e","f","g","h","i","j","k","l","m",
               "n","o","p","q","r","s","t","u","v","w","x","y","z">>

\* the characters of the strings that are searched or lower-cased
Chars(s) ==
    CASE s = "" -> <<>>
      [] s = "ID" -> <<"I","D">>
      [] s = "PH" -> <<"P","H">>
      [] s = "TH" -> <<"T","H">>
      [] s = "VN" -> <<"V","N">>
      [] s = "fraud" -> <<"f","r","a","u","d">>
      [] s = "product_not_received" ->
            <<"p","r","o","d","u","c","t","_","n","o","t","_",
              "r","e","c","e","i","v","e","d">>
      [] s = "product_not_as_described" ->
            <<"p","r","o","d","u","c","t","_","n","o","t","_","a","s","_",
              "d","e","s","c","r","i","b","e","d">>
      [] s = "duplicate_processing" ->
            <<"d","u","p","l","i","c","a","t","e","_",
              "p","r","o","c","e","s","s","i","n","g">>
      [] s = "subscription_cancelled" ->
            <<"s","u","b","s","c","r","i","p","t","i","o","n","_",
              "c","a","n","c","e","l","l","e","d">>
      [] s = "GamersParadise" ->
            <<"G","a","m","e","r","s","P","a","r","a","d","i","s","e">>
      [] s = "ElectroShop VN" ->
            <<"E","l","e","c","t","r","o","S","h","o","p"," ","V","N">>
      [] s = "Modisha" -> <<"M","o","d","i","s","h","a">>
      [] s = "M003" -> <<"M","0","0","3">>
      [] s = "M006" -> <<"M","0","0","6">>
      [] s = "M009" -> <<"M","0","0","9">>
      [] s = "shop" -> <<"s","h","o","p">>
      [] s = "id" -> <<"i","d">>
      [] s = "zzz" -> <<"z","z","z">>
      [] s = "visa" -> <<"v","i","s","a">>
      [] s = "mastercard" -> <<"m","a","s","t","e","r","c","a","r","d">>
      [] s = "gopay" -> <<"g","o","p","a","y">>
      [] s = "ovo" -> <<"o","v","o">>
      [] s = "gcash" -> <<"g","c","a","s","h">>
      [] s = "truemoney" -> <<"t","r","u","e","m","o","n","e","y">>
      [] s = "bank_transfer" ->
            <<"b","a","n","k","_","t","r","a","n","s","f","e","r">>

\* String.prototype.toLowerCase, on characters
toLowerCase(t) ==
    [i \in 1..Len(t) |->
        IF \E k \in 1..26 : UpperCase[k] = t[i]
        THEN LowerCase[CHOOSE k \in 1..26 : UpperCase[k] = t[i]]
        ELSE t[i]]

\* String.prototype.includes, on characters
includes(hay, needle) ==
    \E k \in 0..(Len(hay) - Len(needle)) :
        \A j \in 1..Len(needle) : hay[k + j] = needle[j]

\* the strings whose characters the model knows
KnownStrings ==
    {"", "ID", "PH", "TH", "VN", "fraud", "product_not_received",
     "product_not_as_described", "duplicate_processing", "subscription_cancelled",
     "GamersParadise", "ElectroShop VN", "Modisha", "M003", "M006", "M009",
     "shop", "id", "zzz", "visa", "mastercard", "gopay", "ovo", "gcash",
     "truemoney", "bank_transfer"}

\* s.toLowerCase(), as characters
LowerCased == [s \in KnownStrings |-> toLowerCase(Chars(s))]

\* every string that is a sort key or a group key, in ascending
\* case-sensitive (code unit) order
LexOrder ==
    <<"ElectroShop VN", "GamersParadise", "ID", "M003", "M006", "M009",
      "Modisha", "PH", "TH", "VN", "bank_transfer", "duplicate_processing",
      "fraud", "gcash", "gopay", "lost", "mastercard", "open", "ovo",
      "product_not_as_described", "product_not_received",
      "subscription_cancelled", "truemoney", "visa", "won">>
LexRank(s) == CHOOSE i \in 1..Len(LexOrder) : LexOrder[i] = s

\* the ISO dates of the model, in chronological order
DateStrings ==
    <<"2024-12-20", "2025-01-01", "2025-01-02", "2025-01-03", "2025-01-05",
      "2025-01-15", "2025-01-25", "2025-01-30", "2025-01-31", "2025-02-01">>
DateOrd(d) == CHOOSE i \in 1..Len(DateStrings) : DateStrings[i] = d

\* the decimal strings of the model and the numbers they denote
DecimalStrings == <<"0", "1", "2", "3", "4", "50", "100">>
DecimalValues == <<0, 1, 2, 3, 4, 50, 100>>
Number(s) == DecimalValues[CHOOSE i \in 1..Len(DecimalStrings) : DecimalStrings[i] = s]
\* String(n) for the numbers the front end sends
String(n) == ToString(n)

----------------------------------------------------------------------------
(* FiltersPanel: the fixed option lists *)

REASON_CATEGORIES ==
    <<"fraud", "product_not_received", "product_not_as_described",
      "duplicate_processing", "subscription_cancelled">>
PAYMENT_METHODS ==
    <<"visa", "mastercard", "gopay", "ovo", "gcash", "truemoney", "bank_transfer">>
COUNTRIES == <<"ID", "PH", "TH", "VN">>

\* the selections of at most n distinct options, in selection order
Selections(options, n) ==
    {sel \in UNION {[1..k -> Range(options)] : k \in 0..n} :
        \A i, j \in DOMAIN sel : i # j => sel[i] # sel[j]}

----------------------------------------------------------------------------
(* Record Store: loaded once, never mutated *)

MerchantIds == <<"M003", "M006", "M009">>
MerchantNames == <<"GamersParadise", "ElectroShop VN", "Modisha">>
Statuses == <<"open", "won", "lost">>

ChargebackRecord(i) ==
    [chargeback_id |-> i,
     date |-> IF i % 10 = 0 THEN DateStrings[1] ELSE DateStrings[5 + (i % 3)],
     merchant_id |-> MerchantIds[1 + ((i \div 4) % 3)],
     merchant_name |-> MerchantNames[1 + ((i \div 4) % 3)],
     country |-> COUNTRIES[1 + (i % 4)],
     reason_category |-> REASON_CATEGORIES[1 + ((i \div 3) % 5)],
     payment_method |-> PAYMENT_METHODS[1 + (i % 7)],
     amount_usd |-> 25 * (i % 6),
     status |-> Statuses[1 + ((i \div 2) % 3)]]

Store == [i \in 1..NStore |-> ChargebackRecord(i)]

----------------------------------------------------------------------------
(* api/client.ts *)

\* truthiness of a JavaScript string: every non-empty string, "0" included
Truthy(s) == s # ""

\* a guard that lets the empty list through
HasValuesAlways(list) == TRUE

\* `list.length > 0`
HasValues(list) == Len(list) > 0

\* a string as the text it contributes: no atom for the empty string
Atom(s) == IF s = "" THEN <<>> ELSE <<s>>

\* (first a variant that leaves the separator out)
RECURSIVE joinNoSeparator(_, _)
joinNoSeparator(list, sep) ==
    IF list = <<>> THEN <<>>
    ELSE Atom(list[1]) \o joinNoSeparator(Tail(list), sep)

\* Array.prototype.join
RECURSIVE join(_, _)
join(list, sep) ==
    IF list = <<>> THEN <<>>
    ELSE IF Len(list) = 1 THEN Atom(list[1])
    ELSE Atom(list[1]) \o <<sep>> \o join(Tail(list), sep)

\* URLSearchParams.set on the list of <<key, value>> entries
ParamsSet(params, key, value) ==
    IF \E i \in DOMAIN params : params[i][1] = key
    THEN LET first == CHOOSE i \in DOMAIN params :
                          /\ params[i][1] = key
                          /\ \A j \in 1..(i - 1) : params[j][1] # key
         IN SelectSeq([i \in DOMAIN params |->
                          IF i = first THEN <<key, value>> ELSE params[i]],
                      LAMBDA e : e[1] # key \/ e = <<key, value>>)
    ELSE Append(params, <<key, value>>)

\* application/x-www-form-urlencoded serialisation of one value: of the
\* characters the model's strings hold, only "," is escaped
encode(text) == [i \in DOMAIN text |-> IF text[i] = "," THEN "%2C" ELSE text[i]]

\* URLSearchParams.toString
RECURSIVE ParamsToString(_)
ParamsToString(params) ==
    IF params = <<>> THEN <<>>
    ELSE <<params[1][1], "=">> \o encode(params[1][2])
         \o (IF Len(params) > 1 THEN <<"&">> \o ParamsToString(Tail(params))
             ELSE <<>>)

\* the keys of `extra` in insertion order, and String(value)
ExtraKeys == <<"page", "page_size", "sort_by", "sort_dir">>
NoExtra == <<>>
ExtraValue(extra, key) ==
    IF key \in {"page", "page_size"} THEN String(extra[key]) ELSE extra[key]

RECURSIVE SetExtra(_, _, _)
SetExtra(params, extra, k) ==
    IF k > Len(ExtraKeys) THEN params
    ELSE SetExtra(IF ExtraKeys[k] \in DOMAIN extra
                  THEN ParamsSet(params, ExtraKeys[k], Atom(ExtraValue(extra, ExtraKeys[k])))
                  ELSE params,
                  extra, k + 1)

buildQuery(f, extra) ==
    LET p1 == IF Truthy(f.start_date)
              THEN ParamsSet(<<>>, "start_date", Atom(f.start_date)) ELSE <<>>
        p2 == IF Truthy(f.end_date)
              THEN ParamsSet(p1, "end_date", Atom(f.end_date)) ELSE p1
        p3 == IF Truthy(f.merchant_id)
              THEN ParamsSet(p2, "merchant_id", Atom(f.merchant_id)) ELSE p2
        p4 == IF HasValues(f.reason_category)
              THEN ParamsSet(p3, "reason_category", join(f.reason_category, ","))
              ELSE p3
        p5 == IF HasValues(f.payment_method)
              THEN ParamsSet(p4, "payment_method", join(f.payment_method, ","))
              ELSE p4
        p6 == IF HasValues(f.country)
              THEN ParamsSet(p5, "country", join(f.country, ",")) ELSE p5
        p7 == IF Truthy(f.min_amount)
              THEN ParamsSet(p6, "min_amount", Atom(f.min_amount)) ELSE p6
        p8 == IF Truthy(f.max_amount)
              THEN ParamsSet(p7, "max_amount", Atom(f.max_amount)) ELSE p7
    IN ParamsToString(SetExtra(p8, extra, 1))

\* the query fetchMetrics sends
MetricsQuery(f) == buildQuery(f, NoExtra)

\* the query fetchChargebacks sends
ChargebacksQuery(f, page, pageSize, by, dir) ==
    buildQuery(f, [page |-> page, page_size |-> pageSize,
                   sort_by |-> by, sort_dir |-> dir])

\* fetchChargebacks(filters): the parameters left out take their defaults
fetchChargebacksDefaults ==
    [page |-> 1, page_size |-> 50, sort_by |-> "date", sort_dir |-> "desc"]
DefaultChargebacksQuery(f) == buildQuery(f, fetchChargebacksDefaults)

----------------------------------------------------------------------------
(* The boundary layer of the engine: the query string parsed into a         *)
(* FilterSpecification and a PageSortSpecification.                        *)

\* the positions of a separator atom in a text
Positions(text, sep) == {i \in DOMAIN text : text[i] = sep}
First(idx) == CHOOSE i \in idx : \A j \in idx : i <= j

\* the pieces of a text between occurrences of a separator atom
RECURSIVE SplitOn(_, _)
SplitOn(text, sep) ==
    IF Positions(text, sep) = {} THEN <<text>>
    ELSE <<SubSeq(text, 1, First(Positions(text, sep)) - 1)>>
         \o SplitOn(SubSeq(text, First(Positions(text, sep)) + 1, Len(text)), sep)

decode(text) == [i \in DOMAIN text |-> IF text[i] = "%2C" THEN "," ELSE text[i]]

\* the <<key, value>> entry of one key=value piece
ParseEntry(piece) == <<piece[1], decode(SubSeq(piece, 3, Len(piece)))>>

\* the <<key, value>> entries of a query string
ParseEntries(pieces) == [i \in DOMAIN pieces |-> ParseEntry(pieces[i])]
ParseQuery(qs) == IF qs = <<>> THEN <<>> ELSE ParseEntries(SplitOn(qs, "&"))

\* whether the entries hold a key, and the value they give it (the empty
\* text when they do not)
HasEntry(entries, key) == \E i \in DOMAIN entries : entries[i][1] = key
EntryValue(entries, key) ==
    IF HasEntry(entries, key)
    THEN entries[CHOOSE i \in DOMAIN entries : entries[i][1] = key][2]
    ELSE <<>>

HasParam(qs, key) == HasEntry(ParseQuery(qs), key)
ParamValue(qs, key) == EntryValue(ParseQuery(qs), key)

\* a comma-separated token list; no token at all for an empty value
TokenOf(part) == IF part = <<>> THEN "" ELSE part[1]
TokenList(parts) == [i \in DOMAIN parts |-> TokenOf(parts[i])]
Tokens(text) == IF text = <<>> THEN <<>> ELSE TokenList(SplitOn(text, ","))

\* FilterSpecification: a scalar field is Null when unset, a multi-valued
\* field is its list of values
FilterOfEntries(entries) ==
    [start_date |-> EntryValue(entries, "start_date"),
     end_date |-> EntryValue(entries, "end_date"),
     merchant_id |-> EntryValue(entries, "merchant_id"),
     reason_category |-> Tokens(EntryValue(entries, "reason_category")),
     payment_method |-> Tokens(EntryValue(entries, "payment_method")),
     country |-> Tokens(EntryValue(entries, "country")),
     min_amount |-> EntryValue(entries, "min_amount"),
     max_amount |-> EntryValue(entries, "max_amount")]
FilterSpecification(qs) == FilterOfEntries(ParseQuery(qs))

\* PageSortSpecification with its defaults
DefaultPage == 1
DefaultPageSize == 50
ParseInt(text) == CHOOSE n \in -1..200 : String(n) = text[1]
PageSortOfEntries(entries) ==
    [page |-> IF HasEntry(entries, "page")
              THEN ParseInt(EntryValue(entries, "page")) ELSE DefaultPage,
     page_size |-> IF HasEntry(entries, "page_size")
                   THEN ParseInt(EntryValue(entries, "page_size"))
                   ELSE DefaultPageSize,
     sort_by |-> IF HasEntry(entries, "sort_by")
                 THEN EntryValue(entries, "sort_by")[1] ELSE "date",
     sort_dir |-> IF HasEntry(entries, "sort_dir")
                  THEN EntryValue(entries, "sort_dir")[1] ELSE "desc"]
PageSortSpecification(qs) == PageSortOfEntries(ParseQuery(qs))

----------------------------------------------------------------------------
(* Filter Evaluator *)

Matches(r, fs) ==
    /\ fs.start_date # Null => DateOrd(r.date) >= DateOrd(fs.start_date[1])
    /\ fs.end_date # Null => DateOrd(r.date) <= DateOrd(fs.end_date[1])
    /\ fs.merchant_id # Null =>
          \/ r.merchant_id = fs.merchant_id[1]
          \/ includes(LowerCased[r.merchant_name], LowerCased[fs.merchant_id[1]])
    /\ fs.reason_category # <<>> => r.reason_category \in Range(fs.reason_category)
    /\ fs.payment_method # <<>> => r.payment_method \in Range(fs.payment_method)
    /\ fs.country # <<>> => r.country \in Range(fs.country)
    /\ fs.min_amount # Null => r.amount_usd >= Number(fs.min_amount[1])
    /\ fs.max_amount # Null => r.amount_usd <= Number(fs.max_amount[1])

\* an evaluator for which an empty multi-valued set matches nothing
evaluateEmptySetMatchesNothing(store, fs) ==
    SelectSeq(store, LAMBDA r :
        /\ Matches(r, fs)
        /\ r.reason_category \in Range(fs.reason_category)
        /\ r.payment_method \in Range(fs.payment_method)
        /\ r.country \in Range(fs.country))

evaluate(store, fs) == SelectSeq(store, LAMBDA r : Matches(r, fs))

----------------------------------------------------------------------------
(* Pagination/Sort View *)

\* the sort key of a record: numbers numerically, dates chronologically,
\* strings lexicographically (case-sensitive)
SortKey(r, by) ==
    IF by = "date" THEN DateOrd(r.date)
    ELSE IF by \in {"amount_usd", "chargeback_id"} THEN r[by]
    ELSE LexRank(r[by])

\* the comparison of two keys, reversed by sort_dir
Precedes(j, k, dir) == IF dir = "asc" THEN j < k ELSE j > k

\* the records with one key, in the order they have in s: ties keep their
\* relative order
Run(s, by, k) == SelectSeq(s, LAMBDA r : SortKey(r, by) = k)

\* the runs of the keys, the key that precedes every other key first
RECURSIVE SortRuns(_, _, _, _)
SortRuns(s, by, dir, keys) ==
    IF keys = {} THEN <<>>
    ELSE LET k == CHOOSE k \in keys : \A j \in keys \ {k} : Precedes(k, j, dir)
         IN Run(s, by, k) \o SortRuns(s, by, dir, keys \ {k})

Reverse(s) == [i \in DOMAIN s |-> s[Len(s) + 1 - i]]

\* a sort that gets the descending order by reversing the ascending one
StableSortReversing(s, by, dir) ==
    IF dir = "asc" THEN SortRuns(s, by, "asc", {SortKey(s[i], by) : i \in DOMAIN s})
    ELSE Reverse(SortRuns(s, by, "asc", {SortKey(s[i], by) : i \in DOMAIN s}))

StableSort(s, by, dir) ==
    SortRuns(s, by, dir, {SortKey(s[i], by) : i \in DOMAIN s})

Min(a, b) == IF a <= b THEN a ELSE b

\* the slice [(page-1)*page_size, page*page_size), clipped to the length
PageSlice(sorted, page, size) ==
    SubSeq(sorted, (page - 1) * size + 1, Min(page * size, Len(sorted)))

paginate(subset, ps) ==
    [records |-> PageSlice(StableSort(subset, ps.sort_by, ps.sort_dir),
                           ps.page, ps.page_size),
     total |-> Len(subset),
     page |-> ps.page,
     page_size |-> ps.page_size]

----------------------------------------------------------------------------
(* Metrics Aggregator (the fields the front end's charts and KPI read) *)

\* sum of amount_usd (summed by halves, which keeps the evaluation shallow)
RECURSIVE SumAmount(_)
SumAmount(s) ==
    IF s = <<>> THEN 0
    ELSE IF Len(s) = 1 THEN s[1].amount_usd
    ELSE SumAmount(SubSeq(s, 1, Len(s) \div 2))
         + SumAmount(SubSeq(s, Len(s) \div 2 + 1, Len(s)))

\* the groups of one dimension: <<key, count, amount>>
Group(members, k) == <<k, Len(members), SumAmount(members)>>
Groups(subset, dim) ==
    {Group(SelectSeq(subset, LAMBDA r : r[dim] = k), k) :
        k \in {subset[i][dim] : i \in DOMAIN subset}}

\* descending by count, ties by group key ascending
RECURSIVE OrderGroups(_)
OrderGroups(gs) ==
    IF gs = {} THEN <<>>
    ELSE LET g == CHOOSE g \in gs : \A h \in gs \ {g} :
                      \/ g[2] > h[2]
                      \/ g[2] = h[2] /\ LexRank(g[1]) < LexRank(h[1])
         IN <<g>> \o OrderGroups(gs \ {g})

by_category(subset) ==
    LET gs == OrderGroups(Groups(subset, "reason_category"))
    IN [i \in DOMAIN gs |-> [category |-> gs[i][1], count |-> gs[i][2], amount |-> gs[i][3]]]

by_country(subset) ==
    LET gs == OrderGroups(Groups(subset, "country"))
    IN [i \in DOMAIN gs |-> [country |-> gs[i][1], count |-> gs[i][2], amount |-> gs[i][3]]]

by_payment_method(subset) ==
    LET gs == OrderGroups(Groups(subset, "payment_method"))
    IN [i \in DOMAIN gs |->
           [payment_method |-> gs[i][1], count |-> gs[i][2], amount |-> gs[i][3]]]

aggregate(subset) ==
    [total_chargebacks |-> Len(subset),
     total_disputed_amount |-> SumAmount(subset),
     by_category |-> by_category(subset),
     by_country |-> by_country(subset),
     by_payment_method |-> by_payment_method(subset)]

\* the two endpoints
MetricsEndpoint(qs) == aggregate(evaluate(Store, FilterSpecification(qs)))
ChargebacksOfEntries(entries) ==
    paginate(evaluate(Store, FilterOfEntries(entries)), PageSortOfEntries(entries))
ChargebacksEndpoint(qs) == ChargebacksOfEntries(ParseQuery(qs))

----------------------------------------------------------------------------
(* BreakdownChart.tsx *)

\* the comparator of an ascending sort
CompareCountAscending(a, b) == a.count - b.count

\* the comparator of the three sorts: (a, b) => b.count - a.count
CompareCount(a, b) == b.count - a.count

\* Array.prototype.sort with that comparator.  The sort is stable
\* (ECMAScript 2019; the README asks for Node 18+): an element goes before
\* the first element it compares strictly less than.
SortInsert(s, x) ==
    LET later == {i \in DOMAIN s : CompareCount(x, s[i]) < 0}
    IN IF later = {} THEN Append(s, x)
       ELSE LET i == CHOOSE i \in later : \A j \in later : i <= j
            IN SubSeq(s, 1, i - 1) \o <<x>> \o SubSeq(s, i, Len(s))

RECURSIVE ArraySort(_)
ArraySort(s) ==
    IF s = <<>> THEN <<>>
    ELSE SortInsert(ArraySort(SubSeq(s, 1, Len(s) - 1)), s[Len(s)])

reasonData(byReason) ==
    ArraySort([i \in DOMAIN byReason |->
                  [name |-> byReason[i].category, count |-> byReason[i].count]])

\* a chart that shows the five largest groups only
paymentDataTopFive(byPayment) ==
    SubSeq(ArraySort([i \in DOMAIN byPayment |->
                         [name |-> byPayment[i].payment_method,
                          count |-> byPayment[i].count]]),
           1, Min(5, Len(byPayment)))

paymentData(byPayment) ==
    ArraySort([i \in DOMAIN byPayment |->
                  [name |-> byPayment[i].payment_method, count |-> byPayment[i].count]])

countryData(byCountry) ==
    ArraySort([i \in DOMAIN byCountry |->
                  [name |-> byCountry[i].country, count |-> byCountry[i].count]])

\* the three bar charts BreakdownChart renders when not loading
BreakdownChart(byReason, byPayment, byCountry) ==
    [reason |-> reasonData(byReason),
     payment |-> paymentData(byPayment),
     country |-> countryData(byCountry)]

----------------------------------------------------------------------------
(* App.tsx: state after construction *)

\* today() and daysMinus(29) when called d days after the day the page is
\* loaded: new Date().toISOString().slice(0, 10) reads the clock at the call
Days == <<"2025-01-30", "2025-01-31", "2025-02-01">>
Days29Before == <<"2025-01-01", "2025-01-02", "2025-01-03">>
today(d) == Days[d + 1]
daysMinus29(d) == Days29Before[d + 1]

\* DEFAULT_FILTERS is a module constant: its dates are those of the load
Today == today(0)
DaysMinus29 == daysMinus29(0)

DEFAULT_FILTERS ==
    [start_date |-> DaysMinus29, end_date |-> Today, merchant_id |-> "",
     reason_category |-> <<>>, payment_method |-> <<>>, country |-> <<>>,
     min_amount |-> "", max_amount |-> ""]

\* no records data stored yet: shown is the request whose answer is held,
\* latest the most recently issued request of which an answer was stored
NoHist == [shown |-> Null, latest |-> Null]

\* no walk under way
NoWalk ==
    [ok |-> FALSE, pending |-> FALSE, f |-> DEFAULT_FILTERS, by |-> "date",
     dir |-> "desc", pages |-> <<>>, ids |-> <<>>]

DashInit ==
    /\ filters = DEFAULT_FILTERS
    /\ metrics = Null
    /\ chargebacks = Null
    /\ metricsLoading = TRUE
    /\ tableLoading = TRUE
    /\ error = Null
    /\ sortBy = "date"
    /\ sortDir = "desc"
    /\ search = ""
    /\ local = DEFAULT_FILTERS
    /\ mounted = FALSE
    /\ calls = <<>>
    /\ clicks = 0
    /\ walk = NoWalk
    /\ hist = NoHist
    /\ now = 0

----------------------------------------------------------------------------
(* Specification of buildQuery: every Filters value of the bounded space   *)
(* is handed to buildQuery, with and without the page/sort parameters.     *)

\* at most this many options are selected in one dimension
MaxSelected == 2

QueryFilters ==
    [start_date : {"", DaysMinus29},
     end_date : {"", Today},
     merchant_id : {"", "shop"},
     reason_category : Selections(SubSeq(REASON_CATEGORIES, 1, 2), MaxSelected),
     payment_method : Selections(SubSeq(PAYMENT_METHODS, 3, 4), MaxSelected),
     country : Selections(SubSeq(COUNTRIES, 1, 3), MaxSelected),
     min_amount : {"", "0", "50"},
     max_amount : {"", "100"}]

QueryExtras == {NoExtra, [page |-> 2, page_size |-> 50, sort_by |-> "date", sort_dir |-> "desc"]}

QueryInit ==
    /\ DashInit
    /\ arg \in [f : QueryFilters, extra : QueryExtras]
    /\ res = Null

BuildQueryStep ==
    /\ res = Null
    /\ res' = Some(buildQuery(arg.f, arg.extra))
    /\ UNCHANGED <<arg, dashVars>>

QueryNext == BuildQueryStep

SpecQuery == QueryInit /\ [][QueryNext]_vars

StringDims == {"start_date", "end_date", "merchant_id", "min_amount", "max_amount"}
ListDims == {"reason_category", "payment_method", "country"}

\* the entries of a query without those of one key
WithoutParam(qs, key) == SelectSeq(ParseQuery(qs), LAMBDA e : e[1] # key)

\* C1: buildQuery emits the parameter of a filter dimension if and only if
\* the dimension is set (a non-empty string, a non-empty list); a list
\* parameter never carries an empty value; and the request built with a
\* list dimension [] is the request built with that dimension selected,
\* less that parameter (that is, the request of the dimension left out).
C1_ParamIffSet ==
    res # Null =>
        LET qs == res[1]
        IN /\ \A k \in StringDims : HasParam(qs, k) <=> arg.f[k] # ""
           /\ \A k \in ListDims : HasParam(qs, k) <=> arg.f[k] # <<>>
           /\ \A k \in ListDims : HasParam(qs, k) => ParamValue(qs, k) # <<>>
           /\ \A k \in ListDims : arg.f[k] = <<>> =>
                 \A sel \in {<<"fraud">>, <<"gopay", "ovo">>} :
                    WithoutParam(buildQuery([arg.f EXCEPT ![k] = sel], arg.extra), k)
                        = ParseQuery(qs)

\* C1 witness: a built request of a filter with an empty country list, a
\* non-empty reason list and the amount bound "0"
C1_Witness ==
    /\ res # Null
    /\ arg.f.country = <<>>
    /\ arg.f.reason_category # <<>>
    /\ arg.f.min_amount = "0"
    /\ HasParam(res[1], "min_amount")
    /\ HasParam(res[1], "reason_category")
    /\ ~HasParam(res[1], "country")

----------------------------------------------------------------------------
(* Specification of the engine: a FilterSpecification and a                *)
(* PageSortSpecification of the bounded space are handed to the Filter     *)
(* Evaluator, the Pagination/Sort View and the Metrics Aggregator, and the *)
(* metrics to BreakdownChart.                                              *)

\* ChargebackTable: the keys of COLUMNS
COLUMNS ==
    <<"date", "merchant_name", "country", "reason_category", "payment_method",
      "processor", "amount_usd", "status">>

\* those that are fields of ChargebackRecord
SortFields == Range(COLUMNS) \ {"processor"}

NoFilter ==
    [start_date |-> Null, end_date |-> Null, merchant_id |-> Null,
     reason_category |-> <<>>, payment_method |-> <<>>, country |-> <<>>,
     min_amount |-> Null, max_amount |-> Null]

EngineFilters ==
    [start_date : {Null, Some("2025-01-05"), Some("2025-01-25")},
     end_date : {Null, Some("2025-01-15")},
     merchant_id : {Null, Some("M006"), Some("shop")},
     reason_category : {<<>>, <<"fraud">>},
     payment_method : {<<>>, <<"gopay", "visa">>},
     country : {<<>>, <<"ID">>, <<"ID", "PH">>},
     min_amount : {Null, Some("50")},
     max_amount : {Null, Some("100"), Some("0")}]

DefaultPageSort ==
    [page |-> DefaultPage, page_size |-> DefaultPageSize, sort_by |-> "date", sort_dir |-> "desc"]

EnginePageSorts ==
    [page : 1..MaxPage, page_size : {DefaultPageSize}, sort_by : SortFields,
     sort_dir : {"asc", "desc"}]

EngineInit ==
    /\ DashInit
    /\ \/ arg \in [fs : EngineFilters, ps : {DefaultPageSort}]
       \/ arg \in [fs : {NoFilter,
                         [NoFilter EXCEPT !.country = <<"ID", "PH">>],
                         [NoFilter EXCEPT !.merchant_id = Some("zzz")]},
                   ps : EnginePageSorts]
    /\ res = Null

\* ChargebackTable.handleSort: the direction a click on `col` asks for
NewDir(col, by, dir) == IF col = by /\ dir = "desc" THEN "asc" ELSE "desc"

\* the direction after a click on the column the table is sorted by
Toggled(by, dir) == NewDir(by, by, dir)

EngineChart(m) == BreakdownChart(m.by_category, m.by_payment_method, m.by_country)

EngineResult(subset, ps, m) ==
    [subset |-> subset,
     sorted |-> StableSort(subset, ps.sort_by, ps.sort_dir),
     toggled |-> StableSort(subset, ps.sort_by, Toggled(ps.sort_by, ps.sort_dir)),
     page |-> paginate(subset, ps),
     metrics |-> m,
     chart |-> EngineChart(m)]

EngineRun(subset, ps) == EngineResult(subset, ps, aggregate(subset))

EngineStep ==
    /\ res = Null
    /\ res' = Some(EngineRun(evaluate(Store, arg.fs), arg.ps))
    /\ UNCHANGED <<arg, dashVars>>

EngineNext == EngineStep

SpecEngine == EngineInit /\ [][EngineNext]_vars

\* C2: evaluate(store, F) is a subsequence of the store (every record is the
\* store's record of its id, the ids strictly increase as the store's do),
\* and with no constraint at all it is the whole store in order.
C2_EvaluateSubsequence ==
    res # Null =>
        LET sub == res[1].subset
        IN /\ \A i \in DOMAIN sub :
                 /\ sub[i].chargeback_id \in DOMAIN Store
                 /\ sub[i] = Store[sub[i].chargeback_id]
           /\ \A i \in 1..(Len(sub) - 1) :
                 sub[i].chargeback_id < sub[i + 1].chargeback_id
           /\ arg.fs = NoFilter => sub = Store

\* C2 witness: a filter with a two-valued country set has been evaluated and
\* kept records of both countries, and not every record
C2_Witness ==
    /\ res # Null
    /\ arg.fs.country = <<"ID", "PH">>
    /\ \E i, j \in DOMAIN res[1].subset :
          res[1].subset[i].country = "ID" /\ res[1].subset[j].country = "PH"
    /\ Len(res[1].subset) < Len(Store)

\* whether consecutive records are in the order of the sort direction
Ordered(s, by, dir) ==
    \A i \in 1..(Len(s) - 1) : ~Precedes(SortKey(s[i + 1], by), SortKey(s[i], by), dir)

\* C7: in the sorted sequence, ascending and descending alike, the records
\* of one sort_by value are in the relative order they had before the sort;
\* a click on the sorted column (handleSort) reverses the order of the keys
\* and leaves the order of ties as it was.
C7_SortStable ==
    res # Null =>
        LET r == res[1]
            by == arg.ps.sort_by
            dir == arg.ps.sort_dir
        IN /\ Len(r.sorted) = Len(r.subset)
           /\ Len(r.toggled) = Len(r.subset)
           /\ Ordered(r.sorted, by, dir)
           /\ Ordered(r.toggled, by, Toggled(by, dir))
           /\ Toggled(by, dir) # dir
           /\ \A k \in {SortKey(r.subset[i], by) : i \in DOMAIN r.subset} :
                 /\ Run(r.sorted, by, k) = Run(r.subset, by, k)
                 /\ Run(r.toggled, by, k) = Run(r.subset, by, k)

\* C7 witness: a descending sort by amount whose result holds two records of
\* the same amount next to each other and records of different amounts
C7_Witness ==
    /\ res # Null
    /\ arg.ps.sort_by = "amount_usd"
    /\ arg.ps.sort_dir = "desc"
    /\ \E i \in 1..(Len(res[1].sorted) - 1) :
          res[1].sorted[i].amount_usd = res[1].sorted[i + 1].amount_usd
    /\ \E i \in 1..(Len(res[1].sorted) - 1) :
          res[1].sorted[i].amount_usd > res[1].sorted[i + 1].amount_usd

RECURSIVE SumCounts(_)
SumCounts(list) == IF list = <<>> THEN 0 ELSE list[1].count + SumCounts(Tail(list))

\* the <<key, count>> pairs of a breakdown list and of a chart
Pairs(list, key) == {<<list[i][key], list[i].count>> : i \in DOMAIN list}

\* C9: the group counts of by_category, of by_country and of
\* by_payment_method each sum to total_chargebacks; each chart keeps every
\* group with its count, so its bars sum to the same total.
C9_BreakdownSums ==
    res # Null =>
        LET m == res[1].metrics
            c == res[1].chart
        IN /\ SumCounts(m.by_category) = m.total_chargebacks
           /\ SumCounts(m.by_country) = m.total_chargebacks
           /\ SumCounts(m.by_payment_method) = m.total_chargebacks
           /\ Len(c.reason) = Len(m.by_category)
           /\ Len(c.payment) = Len(m.by_payment_method)
           /\ Len(c.country) = Len(m.by_country)
           /\ Pairs(c.reason, "name") = Pairs(m.by_category, "category")
           /\ Pairs(c.payment, "name") = Pairs(m.by_payment_method, "payment_method")
           /\ Pairs(c.country, "name") = Pairs(m.by_country, "country")
           /\ SumCounts(c.reason) = m.total_chargebacks
           /\ SumCounts(c.payment) = m.total_chargebacks
           /\ SumCounts(c.country) = m.total_chargebacks

\* C9 witness: the metrics of a constrained filter with seven payment
\* groups, four countries and more than one reason
C9_Witness ==
    /\ res # Null
    /\ arg.fs # NoFilter
    /\ res[1].metrics.total_chargebacks > 0
    /\ res[1].metrics.total_chargebacks < Len(Store)
    /\ Len(res[1].chart.payment) = 7
    /\ Len(res[1].chart.country) = 4
    /\ Len(res[1].chart.reason) > 1

----------------------------------------------------------------------------
(* Specification of BreakdownChart: breakdown lists of the bounded space,  *)
(* in any order, are handed to the chart.                                  *)

\* the breakdown lists of at most MaxGroups groups with distinct keys and
\* counts up to MaxCount
GroupKeys == 1..(IF MaxGroups < 4 THEN MaxGroups ELSE 4)
BreakdownShapes ==
    {l \in UNION {[1..n -> GroupKeys \X (0..MaxCount)] : n \in 0..MaxGroups} :
        \A i, j \in DOMAIN l : i # j => l[i][1] # l[j][1]}

ChartInputs ==
    {[byReason |-> [i \in DOMAIN l |->
                       [category |-> REASON_CATEGORIES[l[i][1]], count |-> l[i][2],
                        amount |-> 25 * l[i][2]]],
      byPayment |-> [i \in DOMAIN l |->
                       [payment_method |-> PAYMENT_METHODS[l[i][1]], count |-> l[i][2],
                        amount |-> 25 * l[i][2]]],
      byCountry |-> [i \in DOMAIN l |->
                       [country |-> COUNTRIES[l[i][1]], count |-> l[i][2],
                        amount |-> 25 * l[i][2]]]] : l \in BreakdownShapes}

ChartInit ==
    /\ DashInit
    /\ arg \in ChartInputs
    /\ res = Null

ChartStep ==
    /\ res = Null
    /\ res' = Some(BreakdownChart(arg.byReason, arg.byPayment, arg.byCountry))
    /\ UNCHANGED <<arg, dashVars>>

ChartNext == ChartStep

SpecChart == ChartInit /\ [][ChartNext]_vars

\* descending by count, ties by key ascending
InBreakdownOrder(list, key) ==
    \A i, j \in DOMAIN list : i < j =>
        \/ list[i].count > list[j].count
        \/ list[i].count = list[j].count /\ LexRank(list[i][key]) < LexRank(list[j][key])

\* the <<key, count>> sequence of a list
Shown(list, key) == [i \in DOMAIN list |-> <<list[i][key], list[i].count>>]

\* C10: a breakdown list that is descending by count with ties by key
\* ascending is shown by the chart in the same sequence: the re-sort by
\* count descending leaves it, ties included, as it is.
C10_ChartKeepsOrder ==
    res # Null =>
        /\ InBreakdownOrder(arg.byReason, "category") =>
              /\ Shown(res[1].reason, "name") = Shown(arg.byReason, "category")
              /\ InBreakdownOrder(res[1].reason, "name")
        /\ InBreakdownOrder(arg.byPayment, "payment_method") =>
              /\ Shown(res[1].payment, "name") = Shown(arg.byPayment, "payment_method")
              /\ InBreakdownOrder(res[1].payment, "name")
        /\ InBreakdownOrder(arg.byCountry, "country") =>
              /\ Shown(res[1].country, "name") = Shown(arg.byCountry, "country")
              /\ InBreakdownOrder(res[1].country, "name")

\* C10 witness: the chart of an ordered list of three groups, two of them
\* with the same count
C10_Witness ==
    /\ res # Null
    /\ Len(arg.byReason) = 3
    /\ InBreakdownOrder(arg.byReason, "category")
    /\ arg.byReason[1].count > arg.byReason[2].count
    /\ arg.byReason[2].count = arg.byReason[3].count
    /\ Len(res[1].reason) = 3

----------------------------------------------------------------------------
(* The dashboard: App, FiltersPanel's buttons and ChargebackTable, with    *)
(* the requests they have in flight.                                       *)

\* the filters the user applies from the panel, besides the default one
SmallFilter == [DEFAULT_FILTERS EXCEPT !.country = <<"ID">>]
EmptyFilter == [DEFAULT_FILTERS EXCEPT !.merchant_id = "zzz"]
FilterChoices == {SmallFilter, EmptyFilter}
AppliedFilters == FilterChoices \cup {DEFAULT_FILTERS}

\* the checkboxes the user toggles in the panel and the merchant texts typed,
\* and the drafts these edits can make of the default filter
PanelOptions(dim) ==
    CASE dim = "reason_category" -> <<"fraud">>
      [] dim = "payment_method" -> <<"ovo">>
      [] dim = "country" -> <<"ID", "PH">>
PanelTexts == {"", "zzz"}
PanelAmounts == {"", "100"}
PanelDrafts ==
    UNION {
    [start_date : {daysMinus29(d)},
     end_date : {today(d)},
     merchant_id : PanelTexts,
     reason_category : Selections(PanelOptions("reason_category"), 1),
     payment_method : Selections(PanelOptions("payment_method"), 1),
     country : Selections(PanelOptions("country"), 2),
     min_amount : PanelAmounts,
     max_amount : {""}] : d \in 0..MaxDays }

\* every filter a request of the dashboard can carry
RequestFilters == {f : f \in AppliedFilters \cup PanelDrafts}

\* the column headers the user clicks, and what is typed in the search box
ClickColumns == {"date", "amount_usd"}
SearchInputs == {"", "id"}

\* the page numbers a request of the dashboard can carry
RequestPages == 1..(NStore \div DefaultPageSize + 2)

\* The engine's answers.  The store never changes, so an answer is a
\* function of the request.
MetricsAnswers == [f \in RequestFilters |-> MetricsEndpoint(MetricsQuery(f))]
LoadRecordsAnswers ==
    [f \in RequestFilters |-> ChargebacksEndpoint(DefaultChargebacksQuery(f))]
ChargebacksAnswers ==
    [f \in AppliedFilters, page \in RequestPages, by \in ClickColumns,
     dir \in {"asc", "desc"} |->
        ChargebacksEndpoint(ChargebacksQuery(f, page, DefaultPageSize, by, dir))]

\* the whole sorted subset of a filter, as chargeback ids
SortedIds(sorted) == [i \in DOMAIN sorted |-> sorted[i].chargeback_id]
SortedSubsetIds ==
    [f \in AppliedFilters, by \in ClickColumns, dir \in {"asc", "desc"} |->
        SortedIds(StableSort(evaluate(Store, FilterSpecification(MetricsQuery(f))), by, dir))]

\* an async handler invocation awaiting its response(s).  kind is "load"
\* (loadAll: a metrics and a records request under Promise.all), "sort"
\* (handleSort) or "page" (handlePage); m and c are the states of the
\* metrics and of the records request: "pending", "ok" or "none"; stale is
\* history: the answer to a records request issued later was stored already.
\* (first a variant of LoadCall that sends the table's sort state)
LoadCallKeepsSort(f) ==
    [kind |-> "load", f |-> f, page |-> 1, page_size |-> 50,
     sort_by |-> sortBy, sort_dir |-> sortDir, m |-> "pending", c |-> "pending",
     stale |-> FALSE]
LoadCall(f) ==
    [kind |-> "load", f |-> f, page |-> 1, page_size |-> 50,
     sort_by |-> "date", sort_dir |-> "desc", m |-> "pending", c |-> "pending",
     stale |-> FALSE]
TableCall(kind, f, page, pageSize, by, dir) ==
    [kind |-> kind, f |-> f, page |-> page, page_size |-> pageSize,
     sort_by |-> by, sort_dir |-> dir, m |-> "none", c |-> "pending",
     stale |-> FALSE]

\* a request the boundary layer accepts (page < 1 or page_size < 1 is a
\* validation error and answered with a non-OK status)
ValidPageSpec(call) == call.page >= 1 /\ call.page_size >= 1

MetricsResponse(call) == MetricsAnswers[call.f]
RecordsResponse(call) ==
    IF call.f \in AppliedFilters
    THEN ChargebacksAnswers[call.f, call.page, call.sort_by, call.sort_dir]
    ELSE LoadRecordsAnswers[call.f]

Remove(s, i) == SubSeq(s, 1, i - 1) \o SubSeq(s, i + 1, Len(s))

\* the records request of a call, and the history kept when the answer to
\* call i is stored: the calls issued before it (they come first in calls)
\* are overtaken
RecordsRequest(call) ==
    [f |-> call.f, page |-> call.page, page_size |-> call.page_size,
     sort_by |-> call.sort_by, sort_dir |-> call.sort_dir]
Overtaken(s, i) == [j \in DOMAIN s |-> IF j < i THEN [s[j] EXCEPT !.stale = TRUE] ELSE s[j]]
HistOnData(call) ==
    [shown |-> Some(RecordsRequest(call)),
     latest |-> IF call.stale THEN hist.latest ELSE Some(RecordsRequest(call))]

LoadErrorMessage ==
    "Failed to load dashboard data. Make sure the backend is running on port 8000."

(* ChargebackTable: what it derives from its props and state *)

Ceil(a, b) == (a + b - 1) \div b

\* data?.page ?? 1, data?.page_size ?? 50
DataPage(data) == IF data = Null THEN 1 ELSE data[1].page
DataPageSize(data) == IF data = Null THEN 50 ELSE data[1].page_size
DataRecords(data) == IF data = Null THEN <<>> ELSE data[1].records

totalPages(data) == IF data = Null THEN 1 ELSE Ceil(data[1].total, data[1].page_size)
currentPage(data) == DataPage(data)

\* the pagination footer is rendered, and its buttons' disabled guards
FooterShown(data) == data # Null /\ totalPages(data) > 1
\* (first a variant whose Prev guard is off by one, and one for Next)
PrevDisabledBelowOne(data) == currentPage(data) < 1
PrevDisabled(data) == currentPage(data) <= 1
NextDisabledOnePageEarly(data) == currentPage(data) >= totalPages(data) - 1
NextDisabled(data) == currentPage(data) >= totalPages(data)

\* the search filter of the table
NeedleMatches(r, needle) ==
    \/ includes(LowerCased[r.merchant_name], needle)
    \/ includes(LowerCased[r.reason_category], needle)
    \/ includes(LowerCased[r.country], needle)

\* (a variant that shows at most the first twenty rows)
visibleRecordsCapped(data, text) ==
    SubSeq(DataRecords(data), 1, Min(20, Len(DataRecords(data))))

visibleRecords(data, text) ==
    IF Truthy(text)
    THEN SelectSeq(DataRecords(data), LAMBDA r : NeedleMatches(r, LowerCased[text]))
    ELSE DataRecords(data)

\* the table body: the loading row, the placeholder, or the rows
BodyOf(loading, visible) ==
    IF loading THEN [kind |-> "loading", rows |-> <<>>]
    ELSE IF Len(visible) = 0 THEN [kind |-> "empty", rows |-> <<>>]
    ELSE [kind |-> "rows", rows |-> visible]

TableBody(data, loading, text) == BodyOf(loading, visibleRecords(data, text))

\* the "<total> records" label of the header
TotalShown(data) == IF data # Null THEN Some(data[1].total) ELSE Null

\* onDataChange(result): App's setChargebacks
\* (first a variant that keeps the current data when the page is empty)
onDataChangeUnlessEmpty(result, current) ==
    IF Len(result.records) = 0 THEN current ELSE Some(result)
onDataChange(result, current) == Some(result)

(* History of a Next-only walk: the pages received since a page 1 arrived, *)
(* while every later request was a click on Next made with nothing in      *)
(* flight, for the same filter and sort, and succeeded.                    *)

StartWalk(call, result) ==
    [ok |-> TRUE, pending |-> FALSE, f |-> call.f, by |-> call.sort_by,
     dir |-> call.sort_dir, pages |-> <<call.page>>,
     ids |-> SortedIds(result.records)]

WalkOnData(call, result) ==
    IF Len(calls) = 1 /\ call.page = 1 THEN StartWalk(call, result)
    ELSE IF Len(calls) = 1 /\ walk.ok /\ walk.pending
    THEN [walk EXCEPT !.pending = FALSE,
                      !.pages = Append(@, call.page),
                      !.ids = @ \o SortedIds(result.records)]
    ELSE [walk EXCEPT !.ok = FALSE]

WalkOnNext(call) ==
    IF /\ walk.ok /\ ~walk.pending /\ calls = <<>>
       /\ call.f = walk.f /\ call.sort_by = walk.by /\ call.sort_dir = walk.dir
    THEN [walk EXCEPT !.pending = TRUE]
    ELSE [walk EXCEPT !.ok = FALSE]

(* App *)

\* loadAll(f): the synchronous part, up to the await
loadAll(f) ==
    /\ metricsLoading' = TRUE
    /\ tableLoading' = TRUE
    /\ error' = Null
    /\ calls' = Append(calls, LoadCall(f))
    /\ walk' = [walk EXCEPT !.ok = FALSE]
    /\ UNCHANGED <<metrics, chargebacks, hist, now>>

\* useEffect(() => { loadAll(filters) }, [])
Mount ==
    /\ ~mounted
    /\ mounted' = TRUE
    /\ loadAll(filters)
    /\ UNCHANGED <<filters, tableVars, clicks, fnVars, local>>

CanClick == mounted /\ clicks < MaxClicks
CanRequest == CanClick /\ Len(calls) < MaxInFlight

\* FiltersPanel's Apply button, clicked when the draft has been edited to f:
\* onApply(local), that is handleApply(local)
ApplyClick(f) ==
    /\ CanRequest
    /\ clicks' = clicks + 1
    /\ local' = f
    /\ filters' = f
    /\ loadAll(f)
    /\ UNCHANGED <<tableVars, mounted, fnVars>>

\* the filter handleReset builds, d days after the load: the dates are read
\* from the clock at the click
reset(d) ==
    [start_date |-> daysMinus29(d), end_date |-> today(d), merchant_id |-> "",
     reason_category |-> <<>>, payment_method |-> <<>>, country |-> <<>>,
     min_amount |-> "", max_amount |-> ""]

\* FiltersPanel's Reset button: handleReset, which sets the draft to the
\* filter it builds and applies it
ResetClick ==
    /\ CanRequest
    /\ clicks' = clicks + 1
    /\ local' = reset(now)
    /\ filters' = reset(now)
    /\ loadAll(reset(now))
    /\ UNCHANGED <<tableVars, mounted, fnVars>>

\* the await of loadAll's Promise.all returns when both requests are
\* fulfilled: both responses are stored, and the finally block clears the
\* loading flags
LoadFulfilled(i) ==
    /\ metrics' = Some(MetricsResponse(calls[i]))
    /\ chargebacks' = Some(RecordsResponse(calls[i]))
    /\ metricsLoading' = FALSE
    /\ tableLoading' = FALSE
    /\ calls' = Remove(Overtaken(calls, i), i)
    /\ walk' = WalkOnData(calls[i], RecordsResponse(calls[i]))
    /\ hist' = HistOnData(calls[i])
    /\ UNCHANGED <<error, now>>

\* (a variant of the rejection that empties the data held)
LoadRejectedDropsData(i) ==
    /\ error' = Some(LoadErrorMessage)
    /\ metricsLoading' = FALSE
    /\ tableLoading' = FALSE
    /\ calls' = Remove(calls, i)
    /\ walk' = [walk EXCEPT !.ok = FALSE]
    /\ metrics' = Null
    /\ chargebacks' = Null
    /\ UNCHANGED <<hist, now>>

\* the await throws at the first rejection: the catch block sets the error,
\* the finally block clears the loading flags, and the answer to the other
\* request, whenever it comes, is ignored
LoadRejected(i) ==
    /\ error' = Some(LoadErrorMessage)
    /\ metricsLoading' = FALSE
    /\ tableLoading' = FALSE
    /\ calls' = Remove(calls, i)
    /\ walk' = [walk EXCEPT !.ok = FALSE]
    /\ UNCHANGED <<metrics, chargebacks, hist, now>>

\* (a variant that stores the first answer as soon as it comes)
LoadWaitsStoresEarly(i, request) ==
    /\ calls' = [calls EXCEPT ![i][request] = "ok"]
    /\ IF request = "m"
       THEN /\ metrics' = Some(MetricsResponse(calls[i]))
            /\ metricsLoading' = FALSE
            /\ UNCHANGED <<chargebacks, tableLoading>>
       ELSE /\ chargebacks' = Some(RecordsResponse(calls[i]))
            /\ tableLoading' = FALSE
            /\ UNCHANGED <<metrics, metricsLoading>>
    /\ UNCHANGED <<error, walk, hist, now>>

\* one request of the two is fulfilled while the other is pending
LoadWaits(i, request) ==
    /\ calls' = [calls EXCEPT ![i][request] = "ok"]
    /\ UNCHANGED <<metrics, chargebacks, metricsLoading, tableLoading, error, walk,
                   hist, now>>

\* the response of the metrics request of a load
MetricsOk(i) ==
    /\ calls[i].kind = "load" /\ calls[i].m = "pending"
    /\ IF calls[i].c = "ok" THEN LoadFulfilled(i) ELSE LoadWaits(i, "m")
    /\ UNCHANGED <<filters, tableVars, mounted, clicks, fnVars, local>>

MetricsFail(i) ==
    /\ calls[i].kind = "load" /\ calls[i].m = "pending"
    /\ LoadRejected(i)
    /\ UNCHANGED <<filters, tableVars, mounted, clicks, fnVars, local>>

\* the response of the records request of a load
RecordsOk(i) ==
    /\ calls[i].kind = "load" /\ calls[i].c = "pending"
    /\ IF calls[i].m = "ok" THEN LoadFulfilled(i) ELSE LoadWaits(i, "c")
    /\ UNCHANGED <<filters, tableVars, mounted, clicks, fnVars, local>>

RecordsFail(i) ==
    /\ calls[i].kind = "load" /\ calls[i].c = "pending"
    /\ LoadRejected(i)
    /\ UNCHANGED <<filters, tableVars, mounted, clicks, fnVars, local>>

(* FiltersPanel *)

\* (a variant of toggle that appends without looking)
toggleAlwaysAppends(selected, opt) == Append(selected, opt)

\* MultiCheckbox.toggle: the value handed to onChange
toggle(selected, opt) ==
    IF \E i \in DOMAIN selected : selected[i] = opt
    THEN SelectSeq(selected, LAMBDA x : x # opt)
    ELSE Append(selected, opt)

\* update(key, value): setLocal((prev) => ({ ...prev, [key]: value }))
update(prev, key, value) == [prev EXCEPT ![key] = value]

CanEdit == mounted /\ clicks < MaxEdits

\* (a variant of the checkbox click that applies the draft at once)
ToggleOptionApplies(dim, opt) ==
    /\ CanEdit
    /\ Len(calls) < MaxInFlight
    /\ clicks' = clicks + 1
    /\ local' = update(local, dim, toggle(local[dim], opt))
    /\ filters' = local'
    /\ loadAll(local')
    /\ UNCHANGED <<tableVars, mounted, fnVars>>

\* a click on a checkbox of a MultiCheckbox
ToggleOption(dim, opt) ==
    /\ CanEdit
    /\ clicks' = clicks + 1
    /\ local' = update(local, dim, toggle(local[dim], opt))
    /\ UNCHANGED <<appVars, tableVars, mounted, calls, walk, hist, now, fnVars>>

\* typing in the merchant box
TypeMerchant(text) ==
    /\ CanEdit
    /\ text # local.merchant_id
    /\ clicks' = clicks + 1
    /\ local' = update(local, "merchant_id", text)
    /\ UNCHANGED <<appVars, tableVars, mounted, calls, walk, hist, now, fnVars>>

\* typing in the Min Amount box
TypeAmount(text) ==
    /\ CanEdit
    /\ text # local.min_amount
    /\ clicks' = clicks + 1
    /\ local' = update(local, "min_amount", text)
    /\ UNCHANGED <<appVars, tableVars, mounted, calls, walk, hist, now, fnVars>>

\* the Apply button: onApply(local)
PanelApply ==
    /\ CanEdit
    /\ Len(calls) < MaxInFlight
    /\ clicks' = clicks + 1
    /\ filters' = local
    /\ loadAll(local)
    /\ UNCHANGED <<local, tableVars, mounted, fnVars>>

\* the Reset button: handleReset
PanelReset ==
    /\ CanEdit
    /\ Len(calls) < MaxInFlight
    /\ clicks' = clicks + 1
    /\ local' = reset(now)
    /\ filters' = reset(now)
    /\ loadAll(reset(now))
    /\ UNCHANGED <<tableVars, mounted, fnVars>>

\* a UTC midnight passes while the page is open
Midnight ==
    /\ mounted
    /\ now < MaxDays
    /\ now' = now + 1
    /\ UNCHANGED <<appVars, tableVars, local, mounted, calls, clicks, walk, hist,
                   fnVars>>

(* ChargebackTable *)

\* a click on a column header: handleSort(col), up to the await
SortClick(col) ==
    /\ CanRequest
    /\ clicks' = clicks + 1
    /\ sortBy' = col
    /\ sortDir' = NewDir(col, sortBy, sortDir)
    /\ tableLoading' = TRUE
    /\ calls' = Append(calls, TableCall("sort", filters, DataPage(chargebacks),
                                        DataPageSize(chargebacks), col,
                                        NewDir(col, sortBy, sortDir)))
    /\ walk' = [walk EXCEPT !.ok = FALSE]
    /\ UNCHANGED <<filters, metrics, chargebacks, metricsLoading, error, search,
                   mounted, fnVars, local, hist, now>>

\* handlePage(page), up to the await
handlePage(page) ==
    /\ tableLoading' = TRUE
    /\ calls' = Append(calls, TableCall("page", filters, page,
                                        DataPageSize(chargebacks), sortBy, sortDir))
    /\ UNCHANGED <<filters, metrics, chargebacks, metricsLoading, error, tableVars,
                   mounted, fnVars, local, hist, now>>

\* the Prev button
PrevClick ==
    /\ CanRequest
    /\ FooterShown(chargebacks)
    /\ ~PrevDisabled(chargebacks)
    /\ clicks' = clicks + 1
    /\ handlePage(currentPage(chargebacks) - 1)
    /\ walk' = [walk EXCEPT !.ok = FALSE]

\* the Next button
NextClick ==
    /\ CanRequest
    /\ FooterShown(chargebacks)
    /\ ~NextDisabled(chargebacks)
    /\ clicks' = clicks + 1
    /\ handlePage(currentPage(chargebacks) + 1)
    /\ walk' = WalkOnNext(TableCall("page", filters, currentPage(chargebacks) + 1,
                                    DataPageSize(chargebacks), sortBy, sortDir))

\* typing in the search box: setSearch(e.target.value)
SetSearch(text) ==
    /\ CanClick
    /\ text # search
    /\ clicks' = clicks + 1
    /\ search' = text
    /\ UNCHANGED <<appVars, sortBy, sortDir, mounted, calls, walk, fnVars, local,
                   hist, now>>

\* the response of the request of handleSort or handlePage: the data is
\* stored, and the finally block clears the loading flag
TableOk(i) ==
    /\ calls[i].kind \in {"sort", "page"}
    /\ ValidPageSpec(calls[i])
    /\ chargebacks' = onDataChange(RecordsResponse(calls[i]), chargebacks)
    /\ tableLoading' = FALSE
    /\ calls' = Remove(Overtaken(calls, i), i)
    /\ walk' = WalkOnData(calls[i], RecordsResponse(calls[i]))
    /\ hist' = HistOnData(calls[i])
    /\ UNCHANGED <<filters, metrics, metricsLoading, error, tableVars, mounted,
                   clicks, fnVars, local, now>>

\* (a variant of the failure without the finally block)
TableFailKeepsLoading(i) ==
    /\ calls[i].kind \in {"sort", "page"}
    /\ calls' = Remove(calls, i)
    /\ walk' = [walk EXCEPT !.ok = FALSE]
    /\ UNCHANGED <<filters, metrics, chargebacks, metricsLoading, tableLoading,
                   error, tableVars, mounted, clicks, fnVars, local, hist, now>>

\* its failure: fetchChargebacks throws, the handler has no catch, and the
\* finally block clears the loading flag
TableFail(i) ==
    /\ calls[i].kind \in {"sort", "page"}
    /\ tableLoading' = FALSE
    /\ calls' = Remove(calls, i)
    /\ walk' = [walk EXCEPT !.ok = FALSE]
    /\ UNCHANGED <<filters, metrics, chargebacks, metricsLoading, error, tableVars,
                   mounted, clicks, fnVars, local, hist, now>>

Init ==
    /\ DashInit
    /\ arg = Null
    /\ res = Null

Next ==
    \/ Mount
    \/ \E f \in FilterChoices : ApplyClick(f)
    \/ ResetClick
    \/ \E col \in ClickColumns : SortClick(col)
    \/ PrevClick
    \/ NextClick
    \/ \E text \in SearchInputs : SetSearch(text)
    \/ \E i \in DOMAIN calls : MetricsOk(i)
    \/ \E i \in DOMAIN calls : MetricsFail(i)
    \/ \E i \in DOMAIN calls : RecordsOk(i)
    \/ \E i \in DOMAIN calls : RecordsFail(i)
    \/ \E i \in DOMAIN calls : TableOk(i)
    \/ \E i \in DOMAIN calls : TableFail(i)

Spec == Init /\ [][Next]_vars

----------------------------------------------------------------------------
(* Properties of the dashboard *)

Max(a, b) == IF a >= b THEN a ELSE b

\* the page numbers 1..n in increasing order
PagesUpTo(n) == [k \in 1..n |-> k]

\* the whole sorted subset of the walk's filter and sort, and its size
WalkIds == SortedSubsetIds[walk.f, walk.by, walk.dir]
WalkTotal == Len(WalkIds)
WalkPageSize == DataPageSize(chargebacks)

\* the walk has come to the page on which Next cannot be clicked
WalkDone ==
    /\ walk.ok
    /\ ~walk.pending
    /\ ~(FooterShown(chargebacks) /\ ~NextDisabled(chargebacks))

\* so far the walk has received the pages 1..k, in this order, and they
\* concatenate to the first k pages of the sorted subset
WalkInOrder ==
    /\ walk.pages = PagesUpTo(Len(walk.pages))
    /\ walk.ids = SubSeq(WalkIds, 1, Min(Len(walk.pages) * WalkPageSize, WalkTotal))

\* C3 (as amended): starting from page 1 and clicking Next, each click made
\* after the previous response arrived, until Next cannot be clicked requests
\* exactly the pages 1..max(1, ceil(T/S)), each once and in increasing
\* order, and the received pages concatenate to the whole sorted subset,
\* every record exactly once.
C3_NextWalkCoversSubset ==
    walk.ok =>
        /\ WalkInOrder
        /\ WalkDone =>
              /\ walk.pages = PagesUpTo(Max(1, Ceil(WalkTotal, WalkPageSize)))
              /\ walk.ids = WalkIds

\* a walk over the three pages of the default filter has finished
C3_Witness == WalkDone /\ walk.pages = <<1, 2, 3>> /\ WalkTotal > 2 * WalkPageSize

\* C3 as stated: the pages requested are exactly 1..ceil(T/S)
C3_PagesUpToCeil ==
    WalkDone => walk.pages = PagesUpTo(Ceil(WalkTotal, WalkPageSize))

\* C4: every records request in flight carries page >= 1 and page_size >= 1
\* (every request the dashboard issues is in flight in the state that
\* follows the click or the mount).
C4_PageSpecPositive ==
    \A i \in DOMAIN calls : calls[i].page >= 1 /\ calls[i].page_size >= 1

\* Prev was clicked on page 2: the request for page 1 is in flight
C4_Witness ==
    \E i \in DOMAIN calls :
        calls[i].kind = "page" /\ calls[i].page = 1 /\ currentPage(chargebacks) = 2

\* C5 as stated: whenever a request of the dashboard fails, the error state
\* is non-null after the failure was handled.
C5_FailureSetsError ==
    [][(\E i \in DOMAIN calls : MetricsFail(i) \/ RecordsFail(i) \/ TableFail(i))
          => error' # Null]_vars

\* what the table body shows
Body == TableBody(chargebacks, tableLoading, search)

\* the rows are records of the held response, in its order and none twice
\* (a record is identified by its chargeback_id)
RowsAmong(rows, records, rowIds) ==
    rows = SelectSeq(records, LAMBDA r : r.chargeback_id \in rowIds)

\* the rows are the records that contain the search text
RowsContaining(records, rowIds, needle) ==
    \A k \in DOMAIN records :
        records[k].chargeback_id \in rowIds <=> NeedleMatches(records[k], needle)

\* C6 (as amended): while the table is not showing its loading row, with an
\* empty search box the rows are exactly the records of the held response in
\* order; with a search text they are, in the same order and none added,
\* the held records of which merchant_name, reason_category or country
\* contains the text, case-insensitively.
C6_RowsFromResponse ==
    ~tableLoading =>
        IF search = "" THEN Body.rows = DataRecords(chargebacks)
        ELSE /\ RowsAmong(Body.rows, DataRecords(chargebacks), Range(SortedIds(Body.rows)))
             /\ RowsContaining(DataRecords(chargebacks), Range(SortedIds(Body.rows)),
                               LowerCased[search])

\* the search text hides some of the held records and keeps others
C6_Witness ==
    /\ ~tableLoading
    /\ search # ""
    /\ Len(Body.rows) > 0
    /\ Len(Body.rows) < Len(DataRecords(chargebacks))

\* C6 as stated: for every value of the table's UI state the rows are
\* exactly the records of the held response
C6_RowsAreRecords == ~tableLoading => Body.rows = DataRecords(chargebacks)

\* the request asks for a page beyond the last page of its filtered subset
Beyond(call) ==
    call.page > Ceil(MetricsAnswers[call.f].total_chargebacks, call.page_size)

\* C8: the response to a request for a page beyond the last page has no
\* records, the size of the filtered subset as total, and page and page_size
\* echoed; the table handler stores it as the table data, leaves the error
\* state as it was, and the table shows its empty placeholder and the total.
C8_PageBeyondLast ==
    [][\A i \in DOMAIN calls :
          (TableOk(i) /\ Beyond(calls[i])) =>
              /\ RecordsResponse(calls[i]).records = <<>>
              /\ RecordsResponse(calls[i]).total
                    = MetricsAnswers[calls[i].f].total_chargebacks
              /\ RecordsResponse(calls[i]).page = calls[i].page
              /\ RecordsResponse(calls[i]).page_size = calls[i].page_size
              /\ chargebacks' = Some(RecordsResponse(calls[i]))
              /\ error' = error
              /\ TableBody(chargebacks', tableLoading', search').kind = "empty"
              /\ TotalShown(chargebacks')
                    = Some(MetricsAnswers[calls[i].f].total_chargebacks)]_vars

\* the table holds a page beyond the last page of a non-empty subset, no
\* error is set, and the placeholder is shown
C8_Witness ==
    /\ chargebacks # Null
    /\ DataRecords(chargebacks) = <<>>
    /\ chargebacks[1].total > 0
    /\ currentPage(chargebacks) > totalPages(chargebacks)
    /\ error = Null
    /\ Body.kind = "empty"

\* the first of the two answers of load i arrives, the other is pending
FirstAnswer(i) ==
    \/ MetricsOk(i) /\ calls[i].c = "pending"
    \/ RecordsOk(i) /\ calls[i].m = "pending"

\* the second of the two answers of load i arrives, the first was a success
SecondAnswer(i) ==
    \/ MetricsOk(i) /\ calls[i].c = "ok"
    \/ RecordsOk(i) /\ calls[i].m = "ok"

\* C11: a load issues its metrics and its records request together, with
\* one filter; whichever answer comes first changes nothing of the
\* dashboard state, and the second one stores both answers, clears both
\* loading flags and leaves the error as it is: the state after both
\* successes does not depend on their order of arrival.
C11_LoadOrderIndependent ==
    [][/\ (Len(calls') > Len(calls) /\ calls'[Len(calls')].kind = "load")
             => /\ calls'[Len(calls')].m = "pending"
                /\ calls'[Len(calls')].c = "pending"
                /\ calls'[Len(calls')].f = filters'
       /\ \A i \in DOMAIN calls :
             /\ FirstAnswer(i)
                   => UNCHANGED <<metrics, chargebacks, metricsLoading,
                                  tableLoading, error>>
             /\ SecondAnswer(i)
                   => /\ metrics' = Some(MetricsAnswers[calls[i].f])
                      /\ chargebacks'
                            = Some(ChargebacksAnswers[calls[i].f, 1, "date", "desc"])
                      /\ ~metricsLoading'
                      /\ ~tableLoading'
                      /\ error' = error]_vars

\* the records answer of a load came first and waits for the metrics answer
C11_Witness ==
    \E i \in DOMAIN calls :
        calls[i].kind = "load" /\ calls[i].c = "ok" /\ calls[i].m = "pending"

\* the query string carries the four default page and sort parameters
CarriesDefaults(entries) ==
    /\ EntryValue(entries, "page") = <<"1">>
    /\ EntryValue(entries, "page_size") = <<"50">>
    /\ EntryValue(entries, "sort_by") = <<"date">>
    /\ EntryValue(entries, "sort_dir") = <<"desc">>

\* the query string of the records request of a call
CallQuery(call) ==
    ChargebacksQuery(call.f, call.page, call.page_size, call.sort_by, call.sort_dir)

\* C12: the records request of every load (initial, Apply, Reset) carries
\* page = 1, page_size = 50, sort_by = "date" and sort_dir = "desc";
\* fetchChargebacks with the page and sort arguments left out sends the same
\* query; and the table starts with the sort state date / desc.
C12_LoadCarriesDefaults ==
    /\ \A i \in DOMAIN calls :
          calls[i].kind = "load" =>
              /\ CarriesDefaults(ParseQuery(CallQuery(calls[i])))
              /\ CarriesDefaults(ParseQuery(DefaultChargebacksQuery(calls[i].f)))
              /\ CallQuery(calls[i]) = DefaultChargebacksQuery(calls[i].f)
    /\ ~mounted => sortBy = "date" /\ sortDir = "desc"

\* a load is in flight while the table's sort state is not date / desc
C12_Witness ==
    \E i \in DOMAIN calls :
        calls[i].kind = "load" /\ (sortBy # "date" \/ sortDir # "desc")

----------------------------------------------------------------------------
(* The encoding of one multi-valued dimension: buildQuery applied to every *)
(* selection of a bounded number of options of the fixed option lists.     *)

OptionList(dim) ==
    CASE dim = "reason_category" -> REASON_CATEGORIES
      [] dim = "payment_method" -> PAYMENT_METHODS
      [] dim = "country" -> COUNTRIES

EncodeInputs ==
    UNION {[dim : {d}, sel : Selections(OptionList(d), MaxSelected)] : d \in ListDims}

EncodeInit ==
    /\ DashInit
    /\ arg \in EncodeInputs
    /\ res = Null

EncodeStep ==
    /\ res = Null
    /\ res' = Some(buildQuery([DEFAULT_FILTERS EXCEPT ![arg.dim] = arg.sel], NoExtra))
    /\ UNCHANGED <<arg, dashVars>>

EncodeNext == EncodeStep

SpecEncode == EncodeInit /\ [][EncodeNext]_vars

\* the characters of a built text: an option contributes its characters,
\* a separator atom is one character
AtomChars(a) == IF a \in KnownStrings THEN Chars(a) ELSE <<a>>
RECURSIVE TextChars(_)
TextChars(text) ==
    IF text = <<>> THEN <<>> ELSE AtomChars(text[1]) \o TextChars(Tail(text))

\* the pieces of the characters of a text between its "," characters
SplitChars(chars) == SplitOn(chars, ",")

\* C13: for every non-empty selection from the option list of a
\* multi-valued dimension, the value of the emitted parameter, split on
\* ",", is exactly the selected values, each once, in selection order
\* (as characters, and so as tokens).
C13_CommaListRoundTrip ==
    (res # Null /\ arg.sel # <<>>) =>
        /\ SplitChars(TextChars(ParamValue(res[1], arg.dim)))
              = [i \in DOMAIN arg.sel |-> Chars(arg.sel[i])]
        /\ Tokens(ParamValue(res[1], arg.dim)) = arg.sel

\* two payment methods, selected in an order that is not the list's order,
\* have been encoded
C13_Witness ==
    /\ res # Null
    /\ arg.dim = "payment_method"
    /\ arg.sel = <<"ovo", "visa">>

----------------------------------------------------------------------------
(* The filter panel with App: the draft is edited, applied and reset, and  *)
(* the loads this starts are answered.                                     *)

PanelNext ==
    \/ Mount
    \/ \E dim \in ListDims : \E k \in DOMAIN PanelOptions(dim) :
          ToggleOption(dim, PanelOptions(dim)[k])
    \/ \E text \in PanelTexts : TypeMerchant(text)
    \/ \E text \in PanelAmounts : TypeAmount(text)
    \/ PanelApply
    \/ PanelReset
    \/ Midnight
    \/ \E i \in DOMAIN calls : MetricsOk(i)
    \/ \E i \in DOMAIN calls : MetricsFail(i)
    \/ \E i \in DOMAIN calls : RecordsOk(i)
    \/ \E i \in DOMAIN calls : RecordsFail(i)

SpecPanel == Init /\ [][PanelNext]_vars

NoDuplicates(list) == \A i, j \in DOMAIN list : i # j => list[i] # list[j]

\* C14: after any sequence of checkbox toggles and resets, the selection of
\* each multi-valued dimension of the draft has no duplicate value and only
\* values of the dimension's option list, and toggling any option twice
\* gives back the same set of selected values.
C14_SelectionIsSet ==
    \A dim \in ListDims :
        /\ NoDuplicates(local[dim])
        /\ Range(local[dim]) \subseteq Range(OptionList(dim))
        /\ \A opt \in Range(OptionList(dim)) :
              /\ Range(toggle(toggle(local[dim], opt), opt)) = Range(local[dim])
              /\ NoDuplicates(toggle(local[dim], opt))

\* ID was selected, then PH, then ID was toggled off: after three edits the
\* selection is PH alone, or PH and ID were selected in that order
C14_Witness ==
    \/ local.country = <<"PH">> /\ clicks = 3 /\ filters = DEFAULT_FILTERS
    \/ local.country = <<"PH", "ID">>

----------------------------------------------------------------------------
(* The dashboard with its requests answered: the mount effect runs, and    *)
(* every request in flight is eventually answered, with a success or with  *)
(* a failure.                                                              *)

Answer ==
    \E i \in DOMAIN calls :
        \/ MetricsOk(i)
        \/ MetricsFail(i)
        \/ RecordsOk(i)
        \/ RecordsFail(i)
        \/ TableOk(i)
        \/ TableFail(i)

SpecLive == Spec /\ WF_vars(Mount) /\ WF_vars(Answer)

Loading == metricsLoading \/ tableLoading

\* C15: if every request is eventually answered, then whenever a loading
\* flag is true, eventually both are false; and when nothing is in flight
\* after the mount both are false, so they stay false until the next user
\* action, on the success and on the failure path alike.
C15_LoadingSettles ==
    /\ [](Loading ~> ~Loading)
    /\ []((mounted /\ calls = <<>>) => ~Loading)

\* a request failed, everything is answered and both flags are false
C15_Witness ==
    /\ mounted
    /\ calls = <<>>
    /\ ~Loading
    /\ clicks > 0
    /\ error # Null

----------------------------------------------------------------------------
(* The table data and the requests behind it, checked under Spec.          *)

\* nothing is in flight: every request issued has been answered
NoneInFlight == calls = <<>>

\* a records request is in flight
RecordsInFlight == \E i \in DOMAIN calls : calls[i].c = "pending"

\* C16: when nothing is in flight, the records data held is the response to
\* the most recently issued request among those whose response was stored:
\* a response to an older request never replaces that of a newer one.
C16_LastRequestWins ==
    (NoneInFlight /\ hist.latest # Null) => hist.shown = hist.latest

\* C17: tableLoading is true whenever a records request is in flight, also
\* when several overlap.
C17_LoadingWhileInFlight == RecordsInFlight => tableLoading

\* C18: a response held with total > 0 has a page between 1 and the number
\* of pages, ceil(total / page_size): a non-empty result is never shown as an
\* empty page without pagination.
C18_HeldPageInRange ==
    (chargebacks # Null /\ chargebacks[1].total > 0) =>
        /\ 1 <= DataPage(chargebacks)
        /\ DataPage(chargebacks) <= totalPages(chargebacks)

\* C19: when nothing is in flight, the sort state of the table (the header
\* indicator) is the sort_by and sort_dir of the request whose response is
\* held.
C19_SortStateIsShown ==
    (NoneInFlight /\ hist.shown # Null) =>
        /\ sortBy = hist.shown[1].sort_by
        /\ sortDir = hist.shown[1].sort_dir

----------------------------------------------------------------------------
(* The filter panel's draft and the applied filter, checked under          *)
(* SpecPanel.                                                              *)

\* an edit of the panel: a checkbox is toggled, or the merchant text or an
\* amount bound is typed
PanelEdit ==
    \/ \E dim \in ListDims : \E k \in DOMAIN PanelOptions(dim) :
          ToggleOption(dim, PanelOptions(dim)[k])
    \/ \E text \in PanelTexts : TypeMerchant(text)
    \/ \E text \in PanelAmounts : TypeAmount(text)

\* what a step of the panel may do, when Reset applies the filter resetTo:
\* an edit changes the draft and nothing of the application; Apply applies
\* the draft as it is; Reset applies resetTo and makes it the draft; and the
\* applied filter changes, or a request is issued, only with the draft
PanelContract(resetTo) ==
    /\ PanelEdit =>
          /\ local' # local
          /\ UNCHANGED <<filters, metrics, chargebacks, metricsLoading,
                         tableLoading, error, calls>>
    /\ PanelApply =>
          /\ local' = local
          /\ filters' = local
          /\ calls' = Append(calls, LoadCall(local))
    /\ PanelReset =>
          /\ local' = resetTo
          /\ filters' = resetTo
          /\ calls' = Append(calls, LoadCall(resetTo))
    /\ filters' # filters => filters' = local'
    /\ Len(calls') > Len(calls) =>
          /\ calls' = Append(calls, LoadCall(filters'))
          /\ filters' = local'

\* C21: an edit of the filter panel changes the draft only: the applied
\* filter, the metrics, the records, the loading flags and the error are
\* unchanged and no request is issued, until Apply, which applies exactly the
\* current draft, or Reset, which applies the filter with every dimension
\* empty and the last 30 days as of the day of the click, and sets the draft
\* to it.
C21_EditsWaitForApply == [][PanelContract(reset(now))]_vars

\* Reset was clicked a day after the load and a checkbox was toggled since:
\* the applied filter is the one of the Reset, the draft differs from it
C21_Witness ==
    /\ now = 1
    /\ filters = reset(1)
    /\ local = [reset(1) EXCEPT !.country = <<"ID">>]
    /\ NoneInFlight
    /\ metrics = Some(MetricsAnswers[reset(1)])
    /\ error = Null

\* C21 as stated: Reset applies the default filter, the one the page was
\* loaded with.
C21_ResetAppliesDefault == [][PanelContract(DEFAULT_FILTERS)]_vars

====
